---- MODULE Spec2Model ----
(***************************************************************************)
(* Reaction statistics service (ddritzenhoff/stats).                        *)
(*                                                                         *)
(* The model covers the Slack reaction handlers of http/slack.go, the      *)
(* sqlite MemberService and LeaderboardService they call, and the queries  *)
(* of query.sql.  Handlers run concurrently, one per HTTP request; the     *)
(* only shared state is the members table.  Every MemberService call is    *)
(* one atomic step (its own transaction); the calls of one handler         *)
(* interleave with those of the others.  Times are whole clock ticks, at   *)
(* least a second each, so that the RFC3339 text the created_at and        *)
(* updated_at columns hold is the tick itself.                             *)
(***************************************************************************)
EXTENDS Integers, FiniteSets, Sequences, TLC

(* ------------------------------ bounds --------------------------------- *)

\* The clock runs from 1 to MaxNow.
MaxNow == 2

\* Clock ticks per calendar month.
TicksPerMonth == 1

\* Rows the table holds at most.
MaxRows == 2

\* Largest counter value a direct UpdateMember call sets.
MaxCount == 1

\* Concurrent request goroutines.
Procs == {"p1", "p2"}

\* Slack users that send reactions.
Users == {"U1", "U2"}

\* Values of ItemUser (the user reacted to) seen in events.
Targets == Users \cup {"USLACKBOT", ""}

(* ------------------------ constants of the code ------------------------ *)

ThumbsUp == "+1"

ThumbsDown == "-1"

\* Reaction tokens seen in events; "eyes" stands for any other emoji.
Reactions == {ThumbsUp, ThumbsDown, "eyes"}

\* error values
NoErr == "nil"

ErrNotFound == "stats.ErrNotFound"

ErrNoRows == "sql.ErrNoRows"

ErrConstraint == "CreateMember: constraint failed"

Panic == "panic: nil pointer dereference"

\* How a handler ended that the process's exit cut short at step l.
Abandoned(l) == "abandoned at " \o l

\* fmt.Errorf("...: %w", err) keeps the wrapped error's identity for
\* errors.Is; the model keeps the identity and drops the message prefix.
Wrap(err) == err

\* errors.Is on the sentinel values above.
ErrorsIs(err, target) == err # NoErr /\ Wrap(err) = target

(* ------------------------------- state --------------------------------- *)

VARIABLES
    members,   \* the members table: a set of rows
    now,       \* the wall clock
    pc,        \* per goroutine: where its handler stands
    ev,        \* per goroutine: the event being handled
    monthYear, \* per goroutine: the handler's local monthYear
    itemMember,\* per goroutine: the handler's local *stats.Member
    err,       \* per goroutine: the handler's local err
    ret,       \* per goroutine: how the handler ended, once it has
    prior,     \* per goroutine: the goroutines whose handler had already
               \* ended when this one's began
    call       \* the last direct service call and what it returned

vars == <<members, now, pc, ev, monthYear, itemMember, err, ret, prior, call>>

\* stats.NewMonthYear: the calendar month a time falls in.
NewMonthYear(t) == ((t - 1) \div TicksPerMonth) + 1

\* No local member (a nil *stats.Member).
NilMember == [ID |-> 0, SlackUID |-> "", Date |-> 0,
              ReceivedLikes |-> 0, ReceivedDislikes |-> 0,
              CreatedAt |-> 0, UpdatedAt |-> 0]

(* ------------------------- the members table --------------------------- *)

\* SELECT * FROM members WHERE slack_uid = ? AND month_year = ? LIMIT 1
QFindMember(st, uid, my) == {m \in st : m.SlackUID = uid /\ m.Date = my}

\* SELECT * FROM members WHERE id = ? LIMIT 1
QFindMemberByID(st, id) == {m \in st : m.ID = id}

\* Mutant of UniqueViolation: a table without the UNIQUE constraint.
UniqueViolation_None(st, uid, my) == FALSE

\* UNIQUE(identity, period_key) of the members table.
UniqueViolation(st, uid, my) == \E m \in st : m.SlackUID = uid /\ m.Date = my

\* The id the table gives a new row: one past the largest in use.
NewID(st) == IF st = {} THEN 1
             ELSE (CHOOSE i \in {m.ID : m \in st} : \A m \in st : m.ID <= i) + 1

\* Mutant of QCreateMember: updated_at is left at the column's zero value.
QCreateMember_NoUpdatedAt(st, uid, my, createdAt, updatedAt) ==
    [ID |-> NewID(st), SlackUID |-> uid, Date |-> my,
     ReceivedLikes |-> 0, ReceivedDislikes |-> 0,
     CreatedAt |-> createdAt, UpdatedAt |-> 0]

\* INSERT INTO members (...) VALUES (...) RETURNING *, with the parameters
\* CreateMember passes (slack_uid, month_year, created_at, updated_at; the
\* query text of query.sql names the first two only): the new row, with the
\* counters at the column default.
QCreateMember(st, uid, my, createdAt, updatedAt) ==
    [ID |-> NewID(st), SlackUID |-> uid, Date |-> my,
     ReceivedLikes |-> 0, ReceivedDislikes |-> 0,
     CreatedAt |-> createdAt, UpdatedAt |-> updatedAt]

\* UPDATE members SET received_likes = ?, received_dislikes = ? WHERE id = ?,
\* with the UpdatedAt parameter UpdateMember passes.
QUpdateMember(st, id, likes, dislikes, updatedAt) ==
    {IF m.ID = id
     THEN [m EXCEPT !.ReceivedLikes = likes, !.ReceivedDislikes = dislikes,
                    !.UpdatedAt = updatedAt]
     ELSE m : m \in st}

\* Mutant of QDeleteMember: the DELETE does not take effect.
QDeleteMember_None(st, id) == st

\* DELETE FROM members WHERE id = ?
QDeleteMember(st, id) == {m \in st : m.ID # id}

(* --------------------------- MemberService ----------------------------- *)

\* How a method's transaction ended: by the tx.Commit() of its return
\* statement, or by its deferred tx.Rollback().
Committed == "tx.Commit"

RolledBack == "tx.Rollback"

\* Every method begins one transaction (ms.db.BeginTx) and defers its
\* Rollback; tx in a method's result is how that transaction ended.

\* MemberService.FindMemberByID: the row, or ErrNotFound.
FindMemberByID(st, id) ==
    LET rows == QFindMemberByID(st, id) IN
    IF rows = {} THEN [m |-> NilMember, err |-> ErrNotFound, tx |-> RolledBack]
    ELSE [m |-> CHOOSE m \in rows : TRUE, err |-> NoErr, tx |-> RolledBack]

\* MemberService.FindMember: the row, or ErrNotFound.
FindMember(st, uid, my) ==
    LET rows == QFindMember(st, uid, my) IN
    IF rows = {} THEN [m |-> NilMember, err |-> ErrNotFound, tx |-> RolledBack]
    ELSE [m |-> CHOOSE m \in rows : TRUE, err |-> NoErr, tx |-> RolledBack]

\* MemberService.CreateMember at time t (tx.now): the table after the
\* insert, the member as the caller sees it afterwards (CreatedAt, UpdatedAt,
\* ID and counters filled in) and the error.
CreateMember(st, uid, my, t) ==
    IF UniqueViolation(st, uid, my)
    THEN [st |-> st, m |-> NilMember, err |-> Wrap(ErrConstraint),
          tx |-> RolledBack]
    ELSE LET row == QCreateMember(st, uid, my, t, t)
         IN [st |-> st \cup {row}, m |-> row, err |-> NoErr, tx |-> Committed]

\* Mutant of Patch: a nil field is written as zero.
Patch_NilIsZero(row, upd) ==
    [row EXCEPT
        !.ReceivedLikes = IF upd.ReceivedLikes # <<>>
                          THEN upd.ReceivedLikes[1] ELSE 0,
        !.ReceivedDislikes = IF upd.ReceivedDislikes # <<>>
                             THEN upd.ReceivedDislikes[1] ELSE 0]

\* UpdateMember's patch of the row it read: a nil field (<<>>) keeps the
\* row's value.
Patch(row, upd) ==
    [row EXCEPT
        !.ReceivedLikes = IF upd.ReceivedLikes # <<>>
                          THEN upd.ReceivedLikes[1] ELSE @,
        !.ReceivedDislikes = IF upd.ReceivedDislikes # <<>>
                             THEN upd.ReceivedDislikes[1] ELSE @]

\* MemberService.UpdateMember at time t (time.Now()): FindMemberByID, the
\* patch and the UPDATE, in the transaction the method begins and commits.
UpdateMember(st, id, upd, t) ==
    LET rows == QFindMemberByID(st, id) IN
    IF rows = {} THEN [st |-> st, err |-> Wrap(ErrNoRows), tx |-> RolledBack]
    ELSE LET g == Patch(CHOOSE m \in rows : TRUE, upd)
         IN [st |-> QUpdateMember(st, id, g.ReceivedLikes, g.ReceivedDislikes, t),
             err |-> NoErr, tx |-> Committed]

\* The deferred tx.Rollback() of a method that returns without tx.Commit():
\* the method's queries run on the service's own handle (db.query), not on
\* tx, so the rollback undoes none of them.
DeferredRollback(before, after) == after

\* MemberService.DeleteMember: the DELETE and the return of nil with the
\* transaction left uncommitted; an id without a row is no error.
DeleteMember(st, id) ==
    [st |-> DeferredRollback(st, QDeleteMember(st, id)), err |-> NoErr,
     tx |-> RolledBack]

(* ------------------------- LeaderboardService ------------------------- *)

\* Mutant of MostLikesReceived: the query without its WHERE clause.
MostLikesReceived_AnyMonth(st, my) ==
    {m \in st : \A o \in st : o.ReceivedLikes <= m.ReceivedLikes}

\* SELECT m.* FROM members m WHERE month_year = ?
\* ORDER BY received_likes DESC LIMIT 1: the rows the query may return.
MostLikesReceived(st, my) ==
    {m \in st : /\ m.Date = my
                /\ \A o \in st : o.Date = my => o.ReceivedLikes <= m.ReceivedLikes}

\* SELECT m.* FROM members m WHERE month_year = ?
\* ORDER BY received_dislikes DESC LIMIT 1: the rows the query may return.
MostDislikesReceived(st, my) ==
    {m \in st : /\ m.Date = my
                /\ \A o \in st : o.Date = my =>
                       o.ReceivedDislikes <= m.ReceivedDislikes}

\* The error of a :one query that returned the rows in rs.
QueryErr(rs) == IF rs = {} THEN ErrNoRows ELSE NoErr

\* LeaderboardService.FindLeaderboard: the results it may return for the
\* month of date. A query's error is returned as it is.
FindLeaderboard(st, date) ==
    LET my == NewMonthYear(date)
        ls == MostLikesReceived(st, my)
        ds == MostDislikesReceived(st, my)
    IN IF QueryErr(ls) # NoErr
       THEN {[date |-> 0, likes |-> NilMember, dislikes |-> NilMember,
              err |-> QueryErr(ls)]}
       ELSE IF QueryErr(ds) # NoErr
       THEN {[date |-> 0, likes |-> NilMember, dislikes |-> NilMember,
              err |-> QueryErr(ds)]}
       ELSE {[date |-> date, likes |-> l, dislikes |-> d, err |-> NoErr] :
                l \in ls, d \in ds}

\* No message handed to PostMessage.
NoMsg == <<>>

\* The record of a direct call: the operation, its arguments, what it
\* returned and, for a MemberService method, how its transaction ended;
\* for HandleMonthlyUpdate, the form's date value and the message it
\* handed to PostMessage.
NoCall == [op |-> "none", uid |-> "", my |-> 0, id |-> 0,
           m |-> NilMember, date |-> 0, likes |-> NilMember,
           dislikes |-> NilMember, err |-> NoErr, tx |-> "none",
           raw |-> "", msg |-> NoMsg]

(* ----------------------------- handlers -------------------------------- *)

\* Mutant of InvalidTarget: the empty target is let through.
InvalidTarget_BotOnly(u) == u = "USLACKBOT"

\* The target filter at the head of both handlers.
InvalidTarget(u) == u = "USLACKBOT" \/ u = ""

\* Mutant of max: no clamp, the first argument as it is.
max_First(a, b) == a

\* max of http/slack.go
max(a, b) == IF a > b THEN a ELSE b

Events == [kind : {"added", "removed"}, User : Users, ItemUser : Targets,
           Reaction : Reactions]

NoEvent == [kind |-> "none", User |-> "", ItemUser |-> "", Reaction |-> ""]

\* Mutant of AddedReaction: a token other than "-1" counts as a like.
AddedReaction_AnyIsLike(e, m) ==
    IF e.Reaction = ThumbsDown
    THEN [m EXCEPT !.ReceivedDislikes = m.ReceivedDislikes + 1]
    ELSE [m EXCEPT !.ReceivedLikes = m.ReceivedLikes + 1]

\* "Update the reactions" of HandleReactionAddedEvent.
AddedReaction(e, m) ==
    IF e.Reaction = ThumbsUp
    THEN [m EXCEPT !.ReceivedLikes = m.ReceivedLikes + 1]
    ELSE IF e.Reaction = ThumbsDown
    THEN [m EXCEPT !.ReceivedDislikes = m.ReceivedDislikes + 1]
    ELSE m

\* "Update the reactions" of HandleReactionRemovedEvent.
RemovedReaction(e, m) ==
    IF e.Reaction = ThumbsUp
    THEN [m EXCEPT !.ReceivedLikes = max(m.ReceivedLikes - 1, 0)]
    ELSE IF e.Reaction = ThumbsDown
    THEN [m EXCEPT !.ReceivedDislikes = max(m.ReceivedDislikes - 1, 0)]
    ELSE m

ApplyReaction(e, m) ==
    IF e.kind = "added" THEN AddedReaction(e, m) ELSE RemovedReaction(e, m)

\* stats.MemberUpdate with both fields set, as the handlers build it.
MemberUpdate(m) ==
    [ReceivedLikes |-> <<m.ReceivedLikes>>,
     ReceivedDislikes |-> <<m.ReceivedDislikes>>]

\* The member the handlers hand to CreateMember on a missed lookup.
NewMemberUID(e) == e.User

\* What HandleReactionAddedEvent returns after its UpdateMember call: the
\* call's result is dropped and the handler's own err is tested.
AddedReturn(localErr, updErr) == localErr

\* What HandleReactionRemovedEvent returns after its UpdateMember call: the
\* call's result is assigned to err and tested.
RemovedReturn(localErr, updErr) == updErr

HandlerReturn(e, localErr, updErr) ==
    IF e.kind = "added" THEN AddedReturn(localErr, updErr)
    ELSE RemovedReturn(localErr, updErr)

Init ==
    /\ members = {}
    /\ now = 1
    /\ pc = [p \in Procs |-> "idle"]
    /\ ev = [p \in Procs |-> NoEvent]
    /\ monthYear = [p \in Procs |-> 0]
    /\ itemMember = [p \in Procs |-> NilMember]
    /\ err = [p \in Procs |-> NoErr]
    /\ ret = [p \in Procs |-> NoErr]
    /\ prior = [p \in Procs |-> {}]
    /\ call = NoCall

\* time passes
Tick ==
    /\ now < MaxNow
    /\ now' = now + 1
    /\ UNCHANGED <<members, pc, ev, monthYear, itemMember, err, ret, prior, call>>

\* The handler of p ends with outcome r. With keep, the goroutine stays at
\* "done" with the event and the outcome on view; without, it is at once
\* free for the next request.
Finish(p, r, keep) ==
    IF keep
    THEN /\ pc' = [pc EXCEPT ![p] = "done"]
         /\ ret' = [ret EXCEPT ![p] = r]
         /\ itemMember' = [itemMember EXCEPT ![p] = NilMember]
         /\ err' = [err EXCEPT ![p] = NoErr]
         /\ UNCHANGED <<ev, monthYear, prior>>
    ELSE /\ pc' = [pc EXCEPT ![p] = "idle"]
         /\ ret' = [ret EXCEPT ![p] = NoErr]
         /\ itemMember' = [itemMember EXCEPT ![p] = NilMember]
         /\ err' = [err EXCEPT ![p] = NoErr]
         /\ ev' = [ev EXCEPT ![p] = NoEvent]
         /\ monthYear' = [monthYear EXCEPT ![p] = 0]
         /\ prior' = [prior EXCEPT ![p] = {}]

\* A handler is entered with event e: the filter, the current monthYear, the
\* FindMember call and the Printf of its error.
Begin(p, e, keep) ==
    /\ pc[p] = "idle"
    /\ ev[p] = NoEvent
    /\ UNCHANGED <<members, now, call>>
    /\ LET my == NewMonthYear(now)
           r == FindMember(members, e.ItemUser, my)
           pr == {q \in Procs : pc[q] = "done"}
       IN IF InvalidTarget(e.ItemUser)
          THEN IF keep
               THEN /\ ev' = [ev EXCEPT ![p] = e]
                    /\ prior' = [prior EXCEPT ![p] = pr]
                    /\ pc' = [pc EXCEPT ![p] = "done"]
                    /\ ret' = [ret EXCEPT ![p] = NoErr]
                    /\ UNCHANGED <<monthYear, itemMember, err>>
               ELSE UNCHANGED <<pc, ev, monthYear, itemMember, err, ret, prior>>
          ELSE IF r.err = NoErr
          THEN \* err.Error() on a nil error
               IF keep
               THEN /\ ev' = [ev EXCEPT ![p] = e]
                    /\ prior' = [prior EXCEPT ![p] = pr]
                    /\ monthYear' = [monthYear EXCEPT ![p] = my]
                    /\ pc' = [pc EXCEPT ![p] = "done"]
                    /\ ret' = [ret EXCEPT ![p] = Panic]
                    /\ UNCHANGED <<itemMember, err>>
               ELSE UNCHANGED <<pc, ev, monthYear, itemMember, err, ret, prior>>
          ELSE \* errors.Is(err, stats.ErrNotFound)
               /\ ev' = [ev EXCEPT ![p] = e]
               /\ prior' = [prior EXCEPT ![p] = IF keep THEN pr ELSE {}]
               /\ monthYear' = [monthYear EXCEPT ![p] = my]
               /\ pc' = [pc EXCEPT ![p] = "create"]
               /\ err' = [err EXCEPT ![p] = r.err]
               /\ UNCHANGED <<itemMember, ret>>

\* Mutant of CreateFailed: the handler resolves again, with no limit, until
\* its CreateMember call succeeds.
CreateFailed_Retry(p, e, keep) ==
    UNCHANGED <<pc, ev, monthYear, itemMember, err, ret, prior>>

\* CreateMember failed with e: the handler returns the error, wrapped.
CreateFailed(p, e, keep) == Finish(p, Wrap(e), keep)

\* The not-found branch: CreateMember for the new member, then the
\* reaction applied to the local member. The table is capped at MaxRows
\* rows: an insert that would add one more waits.
Create(p, keep) ==
    /\ pc[p] = "create"
    /\ \/ Cardinality(members) < MaxRows
       \/ UniqueViolation(members, NewMemberUID(ev[p]), monthYear[p])
    /\ UNCHANGED <<now, call>>
    /\ LET r == CreateMember(members, NewMemberUID(ev[p]), monthYear[p], now)
       IN IF r.err # NoErr
          THEN /\ CreateFailed(p, r.err, keep)
               /\ UNCHANGED members
          ELSE /\ members' = r.st
               /\ itemMember' = [itemMember EXCEPT ![p] = ApplyReaction(ev[p], r.m)]
               /\ pc' = [pc EXCEPT ![p] = "update"]
               /\ UNCHANGED <<ev, monthYear, err, ret, prior>>

\* The UpdateMember call and the handler's return.
Update(p, keep) ==
    /\ pc[p] = "update"
    /\ UNCHANGED <<now, call>>
    /\ LET r == UpdateMember(members, itemMember[p].ID,
                             MemberUpdate(itemMember[p]), now)
       IN /\ members' = r.st
          /\ Finish(p, HandlerReturn(ev[p], err[p], r.err), keep)

\* The process exits (CTRL-C) while the handler of p stands between two of
\* its store calls: the handler takes no further step.
Abandon(p) ==
    /\ pc[p] \in {"create", "update"}
    /\ Finish(p, Abandoned(pc[p]), TRUE)
    /\ UNCHANGED <<members, now, call>>

\* Handlers whose goroutines take request after request.
Next ==
    \/ Tick
    \/ \E p \in Procs, e \in Events : Begin(p, e, FALSE)
    \/ \E p \in Procs : Create(p, FALSE)
    \/ \E p \in Procs : Update(p, FALSE)

\* Every goroutine handles one event and keeps its outcome on view.
NextRun ==
    \/ Tick
    \/ \E p \in Procs, e \in Events : Begin(p, e, TRUE)
    \/ \E p \in Procs : Create(p, TRUE)
    \/ \E p \in Procs : Update(p, TRUE)

(* ----------------------- direct service calls -------------------------- *)

\* A caller of the services other than the handlers, one call at a time.

Months == 1..NewMonthYear(MaxNow)

MemberUpdates ==
    [ReceivedLikes : {<<>>} \cup {<<n>> : n \in 0..MaxCount},
     ReceivedDislikes : {<<>>} \cup {<<n>> : n \in 0..MaxCount}]

\* The ids the table hands out.
IDs == 1..(MaxRows + 1)

CallFindMemberByID(id) ==
    /\ LET r == FindMemberByID(members, id)
       IN call' = [NoCall EXCEPT !.op = "FindMemberByID", !.id = id,
                                 !.m = r.m, !.err = r.err, !.tx = r.tx]
    /\ UNCHANGED <<members, now, pc, ev, monthYear, itemMember, err, ret, prior>>

CallFindMember(uid, my) ==
    /\ LET r == FindMember(members, uid, my)
       IN call' = [NoCall EXCEPT !.op = "FindMember", !.uid = uid,
                                 !.my = my, !.m = r.m, !.err = r.err,
                                 !.tx = r.tx]
    /\ UNCHANGED <<members, now, pc, ev, monthYear, itemMember, err, ret, prior>>

CallCreateMember(uid, my) ==
    /\ Cardinality(members) < MaxRows
    /\ NewID(members) \in IDs
    /\ LET r == CreateMember(members, uid, my, now)
       IN /\ members' = r.st
          /\ call' = [NoCall EXCEPT !.op = "CreateMember", !.uid = uid,
                                    !.my = my, !.m = r.m, !.err = r.err,
                                 !.tx = r.tx]
    /\ UNCHANGED <<now, pc, ev, monthYear, itemMember, err, ret, prior>>

CallUpdateMember(id, upd) ==
    /\ LET r == UpdateMember(members, id, upd, now)
       IN /\ members' = r.st
          /\ call' = [NoCall EXCEPT !.op = "UpdateMember", !.id = id,
                                    !.err = r.err, !.tx = r.tx]
    /\ UNCHANGED <<now, pc, ev, monthYear, itemMember, err, ret, prior>>

CallDeleteMember(id) ==
    /\ LET r == DeleteMember(members, id)
       IN /\ members' = r.st
          /\ call' = [NoCall EXCEPT !.op = "DeleteMember", !.id = id,
                                    !.err = r.err, !.tx = r.tx]
    /\ UNCHANGED <<now, pc, ev, monthYear, itemMember, err, ret, prior>>

CallFindLeaderboard(date) ==
    /\ \E r \in FindLeaderboard(members, date) :
          call' = [NoCall EXCEPT !.op = "FindLeaderboard", !.date = date,
                                 !.likes = r.likes, !.dislikes = r.dislikes,
                                 !.err = r.err]
    /\ UNCHANGED <<members, now, pc, ev, monthYear, itemMember, err, ret, prior>>

(* ------------------------- the monthly report ------------------------- *)

\* The texts of the layout "2006-01", in the order of their months.
MonthText ==
    <<"2024-01", "2024-02", "2024-03", "2024-04", "2024-05", "2024-06",
      "2024-07", "2024-08", "2024-09", "2024-10", "2024-11", "2024-12">>

\* MonthYear.String: the text of a month.
String(my) == MonthText[my]

ErrParseForm == "ParseForm: invalid form"

ErrNoDate == "no date value provided within the form"

ErrParse == "parsing time: cannot parse"

ErrPostMessage == "WeeklyUpdate PostMessage: failed"

\* The first clock tick of a month.
FirstTick(my) == (my - 1) * TicksPerMonth + 1

\* time.Parse(monthYearLayout, s): the first instant of the month s names,
\* or an error for a text that is not of the layout.
ParseTime(s) ==
    IF \E k \in DOMAIN MonthText : MonthText[k] = s
    THEN [t |-> FirstTick(CHOOSE k \in DOMAIN MonthText : MonthText[k] = s),
          err |-> NoErr]
    ELSE [t |-> 0, err |-> ErrParse]

\* Mutant of NewMonthYearString: a text that does not parse is taken for
\* the first month.
NewMonthYearString_Lenient(s) ==
    LET r == ParseTime(s) IN
    IF r.err # NoErr THEN [my |-> 1, err |-> NoErr]
    ELSE [my |-> NewMonthYear(r.t), err |-> NoErr]

\* stats.NewMonthYearString
NewMonthYearString(s) ==
    LET r == ParseTime(s) IN
    IF r.err # NoErr THEN [my |-> 0, err |-> r.err]
    ELSE [my |-> NewMonthYear(r.t), err |-> NoErr]

\* The blocks of the report: both leaders with their counts.
Message(l) ==
    <<l.likes.SlackUID, l.likes.ReceivedLikes,
      l.dislikes.SlackUID, l.dislikes.ReceivedDislikes>>

\* Date values that are not of the layout.
Malformed == {"2024-13", "junk"}

\* The forms of a monthly-update request: one that ParseForm rejects, and
\* those it accepts, with the form's date value ("" when there is none).
\* The dates reach one month past those the table can hold rows of.
Forms ==
    {[parses |-> FALSE, date |-> ""]}
    \cup [parses : {TRUE},
          date : {""} \cup Malformed
                 \cup {String(my) : my \in 1..(NewMonthYear(MaxNow) + 1)}]

\* Slack.HandleMonthlyUpdate for a request with the given form. The
\* leaderboard service is handed the month as a date in it; PostMessage
\* succeeds or fails.
HandleMonthlyUpdate(form) ==
    /\ UNCHANGED <<members, now, pc, ev, monthYear, itemMember, err, ret, prior>>
    /\ LET req == [NoCall EXCEPT !.op = "HandleMonthlyUpdate",
                                 !.raw = form.date]
           d == NewMonthYearString(form.date)
       IN IF ~form.parses
          THEN call' = [req EXCEPT !.err = ErrParseForm]
          ELSE IF form.date = ""
          THEN call' = [req EXCEPT !.err = ErrNoDate]
          ELSE IF d.err # NoErr
          THEN call' = [req EXCEPT !.err = d.err]
          ELSE \E l \in FindLeaderboard(members, FirstTick(d.my)) :
                  IF l.err # NoErr
                  THEN call' = [req EXCEPT !.my = d.my, !.err = l.err]
                  ELSE \E posted \in {NoErr, ErrPostMessage} :
                          call' = [req EXCEPT !.my = d.my,
                                              !.msg = Message(l),
                                              !.err = Wrap(posted)]

\* The updates that set one field and leave the other as it is.
OneFieldUpdates ==
    {u \in MemberUpdates : (u.ReceivedLikes = <<>>) # (u.ReceivedDislikes = <<>>)}

\* The updates that set the likes and leave the dislikes as they are.
LikesUpdates == {u \in OneFieldUpdates : u.ReceivedDislikes = <<>>}

NextStore ==
    \/ Tick
    \/ \E id \in IDs : CallFindMemberByID(id)
    \/ \E uid \in Users, my \in Months : CallFindMember(uid, my)
    \/ \E uid \in Users, my \in Months : CallCreateMember(uid, my)
    \/ \E id \in IDs, upd \in MemberUpdates : CallUpdateMember(id, upd)
    \/ \E id \in IDs : CallDeleteMember(id)
    \/ \E date \in 1..MaxNow : CallFindLeaderboard(date)

Spec == Init /\ [][Next]_vars

SpecStore == Init /\ [][NextStore]_vars

\* The callers of the leaderboard: members are created, their counters set
\* and the leaderboard of a date asked for.
NextBoard ==
    \/ \E uid \in Users, my \in Months : CallCreateMember(uid, my)
    \/ \E id \in IDs, upd \in OneFieldUpdates : CallUpdateMember(id, upd)
    \/ \E date \in 1..MaxNow : CallFindLeaderboard(date)

SpecBoard == Init /\ [][NextBoard]_vars

\* Members are created, their counters set and the monthly report asked
\* for.
NextMonthly ==
    \/ \E uid \in Users, my \in Months : CallCreateMember(uid, my)
    \/ \E id \in IDs, upd \in OneFieldUpdates : CallUpdateMember(id, upd)
    \/ \E form \in Forms : HandleMonthlyUpdate(form)

SpecMonthly == Init /\ [][NextMonthly]_vars

\* Members created, updated and looked up while time passes.
NextClock ==
    \/ Tick
    \/ \E uid \in Users, my \in Months : CallCreateMember(uid, my)
    \/ \E id \in IDs, upd \in LikesUpdates : CallUpdateMember(id, upd)
    \/ \E uid \in Users, my \in Months : CallFindMember(uid, my)

SpecClock == Init /\ [][NextClock]_vars

\* Members created, updated, deleted and looked up by id.
NextDelete ==
    \/ \E uid \in Users, my \in Months : CallCreateMember(uid, my)
    \/ \E id \in IDs, upd \in LikesUpdates : CallUpdateMember(id, upd)
    \/ \E id \in IDs : CallDeleteMember(id)
    \/ \E id \in IDs : CallFindMemberByID(id)

SpecDelete == Init /\ [][NextDelete]_vars

\* Members created and updated, with any MemberUpdate, while time passes.
NextPatch ==
    \/ Tick
    \/ \E uid \in Users, my \in Months : CallCreateMember(uid, my)
    \/ \E id \in IDs, upd \in MemberUpdates : CallUpdateMember(id, upd)

SpecPatch == Init /\ [][NextPatch]_vars

SpecRun == Init /\ [][NextRun]_vars

\* One event per goroutine, beside a caller that deletes members.
NextRace ==
    \/ NextRun
    \/ \E id \in IDs : CallDeleteMember(id)

SpecRace == Init /\ [][NextRace]_vars

\* One event per goroutine, where a handler may be cut short.
NextAbandon ==
    \/ NextRun
    \/ \E p \in Procs : Abandon(p)

SpecAbandon == Init /\ [][NextAbandon]_vars

\* One event per goroutine, on a table that a caller of CreateMember has
\* filled before the first request comes in.
NextSeeded ==
    \/ NextRun
    \/ /\ \A p \in Procs : pc[p] = "idle"
       /\ \E uid \in Users, my \in Months : CallCreateMember(uid, my)

SpecSeeded == Init /\ [][NextSeeded]_vars

\* SpecRun with every running handler getting to take its next step.
SpecRunFair ==
    /\ SpecRun
    /\ \A p \in Procs : WF_vars(Create(p, TRUE)) /\ WF_vars(Update(p, TRUE))

(* =============================== claims ================================ *)

\* The row of uid in month my, if any.
RowsOf(uid, my) == {m \in members : m.SlackUID = uid /\ m.Date = my}

\* p's handler took a step.
Stepped(p) == pc'[p] # pc[p]

\* The targets C6 names: the empty identity and the reserved account.
EmptyOrReserved(u) == u \in {"", "USLACKBOT"}

IsReaction(e, kind, reaction) == e.kind = kind /\ e.Reaction = reaction

\* C1: in every reachable state of the table, whatever Added and Removed
\* events were handled and however their handlers interleaved, at most one
\* row exists for each (SlackUID, period) pair.
C1_OneRowPerMemberAndPeriod ==
    \A m1 \in members, m2 \in members :
        (m1.SlackUID = m2.SlackUID /\ m1.Date = m2.Date) => m1 = m2

\* C1 witness: a handler is about to create a member whose (SlackUID,
\* period) already has a row, in a table that holds more than one row.
C1_Witness ==
    \E p \in Procs :
        /\ pc[p] = "create"
        /\ RowsOf(NewMemberUID(ev[p]), monthYear[p]) # {}
        /\ Cardinality(members) >= 2

\* C2: N concurrent Added-Like handlers for the same target, whose record
\* did not exist before, leave the target's record with receivedLikes = N
\* once all of them have ended.
C2_NoLostEvent ==
    \A t \in Users, my \in Months :
        (\A p \in Procs :
            /\ pc[p] = "done"
            /\ IsReaction(ev[p], "added", ThumbsUp)
            /\ ev[p].ItemUser = t
            /\ ev[p].User # t
            /\ monthYear[p] = my)
        => \E m \in RowsOf(t, my) : m.ReceivedLikes = Cardinality(Procs)

\* C3: after every step of every handler, the counters of every row are
\* at least zero.
C3_CountersNonNegative ==
    \A m \in members : m.ReceivedLikes >= 0 /\ m.ReceivedDislikes >= 0

\* C3 witness: a Removed-Like handler has lowered a counter that stood at
\* zero and stands before its UpdateMember call, beside a row with a count,
\* while a Removed-Dislike handler stands before its CreateMember call.
C3_Witness ==
    \E p \in Procs, q \in Procs :
        /\ pc[p] = "update"
        /\ IsReaction(ev[p], "removed", ThumbsUp)
        /\ itemMember[p].ReceivedLikes = 0
        /\ pc[q] = "create"
        /\ IsReaction(ev[q], "removed", ThumbsDown)
        /\ \E m \in members : m.ReceivedLikes + m.ReceivedDislikes > 0

\* C4: when the lookup of the target misses, the record the handler creates
\* and goes on with carries the target's identity (ItemUser) and the
\* current period, with both counters zero before the event's delta.
C4_CreatesTargetRecord ==
    [][\A p \in Procs :
          (pc[p] = "create" /\ pc'[p] = "update")
          => \E m \in members' \ members :
                /\ m.ID = itemMember'[p].ID
                /\ m.SlackUID = ev[p].ItemUser
                /\ m.Date = monthYear[p]
                /\ m.ReceivedLikes = 0
                /\ m.ReceivedDislikes = 0]_vars

\* C5: an Added-Like handler (of another user's reaction) whose target
\* already has a record for the current period, with receivedLikes = n,
\* ends with that record at receivedLikes = n + 1 and its receivedDislikes
\* unchanged.
C5_FoundRecordIsIncremented ==
    [][\A p \in Procs :
          \A m \in members :
             (/\ pc[p] # "done"
              /\ pc'[p] = "done"
              /\ IsReaction(ev'[p], "added", ThumbsUp)
              /\ ~EmptyOrReserved(ev'[p].ItemUser)
              /\ ev'[p].User # ev'[p].ItemUser
              /\ m.SlackUID = ev'[p].ItemUser
              /\ m.Date = monthYear'[p])
             => \E n \in members' :
                   /\ n.ID = m.ID
                   /\ n.ReceivedLikes = m.ReceivedLikes + 1
                   /\ n.ReceivedDislikes = m.ReceivedDislikes]_vars

\* C6: a handler entered with an empty or "USLACKBOT" target ends at once,
\* with no error and the table as it was.
C6_InvalidTargetIsNoOp ==
    [][\A p \in Procs :
          (Stepped(p) /\ EmptyOrReserved(ev'[p].ItemUser) /\ ev'[p] # NoEvent)
          => /\ pc'[p] = "done"
             /\ ret'[p] = NoErr
             /\ members' = members]_vars

\* C6 witness: one handler has ended on an empty target and another on
\* "USLACKBOT".
C6_Witness ==
    /\ \E p \in Procs : pc[p] = "done" /\ ev[p].ItemUser = "" /\ ev[p] # NoEvent
    /\ \E p \in Procs : pc[p] = "done" /\ ev[p].ItemUser = "USLACKBOT"

\* C7: no step of a handler of a self-reaction (User = ItemUser) changes
\* the table.
C7_SelfReactionIsNoOp ==
    [][\A p \in Procs :
          (Stepped(p) /\ ev'[p] # NoEvent /\ ev'[p].User = ev'[p].ItemUser)
          => members' = members]_vars

\* C8: on an empty table, Added(Like, target U1) handled to its end and
\* then Removed(Like, target U1), both from another user, leave a record
\* of U1 for the period with receivedLikes = 0.
C8_AddedThenRemoved ==
    \A p \in Procs, q \in Procs :
        (/\ pc[p] = "done" /\ pc[q] = "done"
         /\ prior[p] = {} /\ prior[q] = {p}
         /\ IsReaction(ev[p], "added", ThumbsUp)
         /\ IsReaction(ev[q], "removed", ThumbsUp)
         /\ ev[p].ItemUser = "U1" /\ ev[q].ItemUser = "U1"
         /\ ev[p].User # "U1" /\ ev[q].User # "U1"
         /\ monthYear[p] = monthYear[q])
        => \E m \in RowsOf("U1", monthYear[q]) : m.ReceivedLikes = 0

\* C9: a handler, Added or Removed, whose lookup missed and whose
\* CreateMember and UpdateMember calls both succeeded returns no error.
C9_RecoversNotFound ==
    [][\A p \in Procs :
          (/\ pc[p] = "update"
           /\ pc'[p] = "done"
           /\ UpdateMember(members, itemMember[p].ID,
                           MemberUpdate(itemMember[p]), now).err = NoErr)
          => ret'[p] = NoErr]_vars

\* C10: FindLeaderboard for a month without rows fails with
\* stats.ErrNotFound and returns no leaderboard.
C10_EmptyPeriodIsNotFound ==
    (/\ call.op = "FindLeaderboard"
     /\ \A m \in members : m.Date # NewMonthYear(call.date))
    => /\ ErrorsIs(call.err, ErrNotFound)
       /\ call.likes = NilMember
       /\ call.dislikes = NilMember

\* C11: FindLeaderboard for a month that has rows succeeds and returns, as
\* MostReceivedLikesMember, a row of that month whose receivedLikes no row
\* of the month exceeds and, as MostReceivedDislikesMember, a row of that
\* month whose receivedDislikes no row of the month exceeds; a row of
\* another month is never returned.
C11_LeadersAreMaximalInPeriod ==
    LET my == NewMonthYear(call.date) IN
    (call.op = "FindLeaderboard" /\ \E m \in members : m.Date = my)
    => /\ call.err = NoErr
       /\ call.likes \in members
       /\ call.likes.Date = my
       /\ \A o \in members :
             o.Date = my => o.ReceivedLikes <= call.likes.ReceivedLikes
       /\ call.dislikes \in members
       /\ call.dislikes.Date = my
       /\ \A o \in members :
             o.Date = my => o.ReceivedDislikes <= call.dislikes.ReceivedDislikes

\* C11 witness: FindLeaderboard has returned the leaders of a month while
\* a row of another month holds more likes than the returned leader.
C11_Witness ==
    /\ call.op = "FindLeaderboard"
    /\ call.err = NoErr
    /\ \E o \in members :
          /\ o.Date # NewMonthYear(call.date)
          /\ o.ReceivedLikes > call.likes.ReceivedLikes

C13_CreateThenFind ==
    [][(/\ call.op = "CreateMember"
        /\ call.err = NoErr
        /\ call'.op = "FindMember"
        /\ call'.uid = call.uid
        /\ call'.my = call.my)
       => /\ call'.err = NoErr
          /\ call'.m.SlackUID = call.uid
          /\ call'.m.Date = call.my
          /\ call'.m.ReceivedLikes = 0
          /\ call'.m.ReceivedDislikes = 0
          /\ call'.m.CreatedAt = call'.m.UpdatedAt
          /\ call'.m.ID = call.m.ID]_vars

\* C13 witness: FindMember has returned a record created in the current
\* tick, after the first, beside an older row that was updated later than
\* it was created.
C13_Witness ==
    /\ call.op = "FindMember"
    /\ call.err = NoErr
    /\ now > 1
    /\ call.m.CreatedAt = now
    /\ call.m.UpdatedAt = now
    /\ call.m.ReceivedLikes + call.m.ReceivedDislikes = 0
    /\ \E o \in members : o.UpdatedAt > o.CreatedAt

\* C14: UpdateMember(id, upd) for an id without a row fails with
\* stats.ErrNotFound and leaves the table as it was.
C14_UpdateOfMissingIdIsNotFound ==
    [][(/\ call'.op = "UpdateMember"
        /\ call' # call
        /\ QFindMemberByID(members, call'.id) = {})
       => /\ ErrorsIs(call'.err, ErrNotFound)
          /\ members' = members]_vars

Rank(l) == CASE l = "idle" -> 0 [] l = "create" -> 1 [] l = "update" -> 2
             [] l = "done" -> 3

\* C16: a handler whose CreateMember fails because the (identity, period)
\* it inserts already has a row does not end with the create error: it
\* goes on to resolve the record again and to apply its delta.
C16_LoserReResolves ==
    [][\A p \in Procs :
          (/\ pc[p] = "create"
           /\ Stepped(p)
           /\ RowsOf(NewMemberUID(ev[p]), monthYear[p]) # {})
          => /\ pc'[p] # "done"
             /\ ret'[p] = NoErr]_vars

\* C17: every handler that was entered ends. Each step moves it forward in
\* its code, so the lookup and the create are each tried at most once, and
\* a failed create ends it with an error.
C17_HandlerTerminates ==
    /\ [][\A p \in Procs :
             Stepped(p)
             => /\ Rank(pc'[p]) > Rank(pc[p])
                /\ (pc[p] = "create" /\ pc'[p] = "done") => ret'[p] # NoErr]_vars
    /\ \A p \in Procs : (pc[p] \in {"create", "update"}) ~> (pc[p] = "done")

\* C17 witness: one handler has ended on a failed create, while the other,
\* which created the row in its way, has ended after its update.
C17_Witness ==
    \E p \in Procs, q \in Procs :
        /\ pc[p] = "done" /\ ret[p] = Wrap(ErrConstraint)
        /\ pc[q] = "done" /\ ret[q] # Wrap(ErrConstraint)
        /\ ev[q].User = ev[p].User
        /\ RowsOf(ev[q].User, monthYear[q]) # {}
        /\ ~EmptyOrReserved(ev[q].ItemUser)

\* C18: a handler whose record has no row any more when its UpdateMember
\* call runs ends without an error and leaves the table as it is: the
\* event is discarded and no record is created in its place.
C18_LostRaceIsDiscarded ==
    [][\A p \in Procs :
          (/\ pc[p] = "update"
           /\ pc'[p] = "done"
           /\ QFindMemberByID(members, itemMember[p].ID) = {})
          => /\ ret'[p] = NoErr
             /\ members' = members]_vars

\* The event of the handler step that p takes.
StepEvent(p) == IF pc[p] = "idle" THEN ev'[p] ELSE ev[p]

\* C19: no step of a handler of an event whose reaction is neither "+1"
\* nor "-1" changes a counter of a row, whatever the other handlers do in
\* between; a row such a step adds has both counters at zero.
C19_OtherTokensChangeNoCounter ==
    [][\A p \in Procs :
          (Stepped(p) /\ StepEvent(p).Reaction \notin {ThumbsUp, ThumbsDown})
          => /\ \A m \in members :
                   \E n \in members' :
                      /\ n.ID = m.ID
                      /\ n.ReceivedLikes = m.ReceivedLikes
                      /\ n.ReceivedDislikes = m.ReceivedDislikes
             /\ \A n \in members' :
                   (\A m \in members : m.ID # n.ID)
                   => n.ReceivedLikes = 0 /\ n.ReceivedDislikes = 0]_vars

\* C19 witness: a handler of another token stands before its UpdateMember
\* call, beside a row with a count, while a handler of a like for the same
\* target stands before its CreateMember call.
C19_Witness ==
    \E p \in Procs, q \in Procs :
        /\ pc[p] = "update" /\ ev[p].Reaction = "eyes"
        /\ pc[q] = "create" /\ ev[q].Reaction = ThumbsUp
        /\ ev[p].ItemUser = ev[q].ItemUser
        /\ \E m \in members : m.ReceivedLikes + m.ReceivedDislikes > 0

\* C20: when a handler was cut short after its CreateMember and before its
\* UpdateMember, an Added-Like handler entered afterwards for the same
\* target and month ends without an error, with one row in the table, the
\* target's, at receivedLikes = 1.
C20_NextEventPicksUpRecord ==
    \A p \in Procs, q \in Procs :
        (/\ pc[p] = "done" /\ ret[p] = Abandoned("update")
         /\ pc[q] = "done" /\ p \in prior[q]
         /\ IsReaction(ev[q], "added", ThumbsUp)
         /\ ev[q].ItemUser = ev[p].ItemUser
         /\ ev[q].User # ev[q].ItemUser
         /\ ev[p].User # ev[p].ItemUser
         /\ monthYear[q] = monthYear[p])
        => /\ ret[q] = NoErr
           /\ Cardinality(members) = 1
           /\ \E m \in RowsOf(ev[q].ItemUser, monthYear[q]) : m.ReceivedLikes = 1

\* The methods of MemberService, and those of them that write.
MemberOps ==
    {"FindMemberByID", "FindMember", "CreateMember", "UpdateMember",
     "DeleteMember"}

MutatingOps == {"CreateMember", "UpdateMember", "DeleteMember"}

\* C21: every MemberService method ends the transaction it began with
\* exactly one of commit or rollback: a writing method that returned no
\* error has committed, and a method that returned an error has rolled
\* back.
C21_TxEndsByCommitOrRollback ==
    call.op \in MemberOps
    => /\ call.tx \in {Committed, RolledBack}
       /\ (call.op \in MutatingOps /\ call.err = NoErr) => call.tx = Committed
       /\ call.err # NoErr => call.tx = RolledBack

\* C22: a Removed handler whose target has a record for the current period
\* ends with the counter of the removed kind at max(n - 1, 0), n being its
\* value before, and the other counter as it was.
C22_RemovedLowersOneCounter ==
    [][\A p \in Procs :
          \A m \in members :
             (/\ pc[p] # "done"
              /\ pc'[p] = "done"
              /\ ev'[p].kind = "removed"
              /\ ev'[p].Reaction \in {ThumbsUp, ThumbsDown}
              /\ ~EmptyOrReserved(ev'[p].ItemUser)
              /\ m.SlackUID = ev'[p].ItemUser
              /\ m.Date = monthYear'[p])
             => \E n \in members' :
                   /\ n.ID = m.ID
                   /\ IF ev'[p].Reaction = ThumbsUp
                      THEN /\ n.ReceivedLikes =
                                 IF m.ReceivedLikes > 0
                                 THEN m.ReceivedLikes - 1 ELSE 0
                           /\ n.ReceivedDislikes = m.ReceivedDislikes
                      ELSE /\ n.ReceivedDislikes =
                                 IF m.ReceivedDislikes > 0
                                 THEN m.ReceivedDislikes - 1 ELSE 0
                           /\ n.ReceivedLikes = m.ReceivedLikes]_vars

\* C23: an Added-Like and an Added-Dislike handler for a target whose
\* record was there before either began, at the counters CreateMember gave
\* it, both take effect, in whatever order their store calls fall: once both
\* have ended, the record holds one like and one dislike more.
C23_BothCountersRise ==
    \A p \in Procs, q \in Procs :
        (/\ pc[p] = "done" /\ pc[q] = "done"
         /\ IsReaction(ev[p], "added", ThumbsUp)
         /\ IsReaction(ev[q], "added", ThumbsDown)
         /\ ev[p].ItemUser = ev[q].ItemUser
         /\ monthYear[p] = monthYear[q]
         /\ call.op = "CreateMember"
         /\ call.err = NoErr
         /\ call.uid = ev[p].ItemUser
         /\ call.my = monthYear[p])
        => \E m \in RowsOf(call.uid, call.my) :
              /\ m.ID = call.m.ID
              /\ m.ReceivedLikes = call.m.ReceivedLikes + 1
              /\ m.ReceivedDislikes = call.m.ReceivedDislikes + 1

\* C24: an Added handler whose UpdateMember call fails returns that call's
\* error, and one that returns no error after the call has had its update
\* persisted.
C24_AddedReturnsUpdateError ==
    [][\A p \in Procs :
          (/\ pc[p] = "update"
           /\ pc'[p] = "done"
           /\ ev[p].kind = "added")
          => LET r == UpdateMember(members, itemMember[p].ID,
                                   MemberUpdate(itemMember[p]), now)
             IN /\ r.err # NoErr => ret'[p] = r.err
                /\ ret'[p] = NoErr => (r.err = NoErr /\ members' = r.st)]_vars

\* The value UpdateMember leaves in a counter that stood at n: the one the
\* update names or, for a nil field, n.
Named(field, n) == IF field = <<>> THEN n ELSE field[1]

\* C25: UpdateMember(id, upd) on an existing record changes only the
\* counters upd names (a nil field leaves the stored value) and updatedAt;
\* id, SlackUID, period and createdAt stay, and so does every other record.
C25_UpdateChangesOnlyNamedCounters ==
    [][\A id \in {call'.id}, upd \in MemberUpdates :
          (call'.op = "UpdateMember" /\ CallUpdateMember(id, upd))
          => \A m \in members :
                IF m.ID # id
                THEN m \in members'
                ELSE /\ Cardinality(members') = Cardinality(members)
                     /\ \E n \in members' :
                           /\ n.ID = m.ID
                           /\ n.SlackUID = m.SlackUID
                           /\ n.Date = m.Date
                           /\ n.CreatedAt = m.CreatedAt
                           /\ n.ReceivedLikes
                                = Named(upd.ReceivedLikes, m.ReceivedLikes)
                           /\ n.ReceivedDislikes
                                = Named(upd.ReceivedDislikes,
                                        m.ReceivedDislikes)]_vars

\* C25 witness: UpdateMember has left a record with likes and with
\* dislikes, updated in a tick after its creation, beside another record
\* that was never updated.
C25_Witness ==
    /\ call.op = "UpdateMember"
    /\ call.err = NoErr
    /\ \E m \in members :
          /\ m.ID = call.id
          /\ m.ReceivedDislikes > 0
          /\ m.ReceivedLikes > 0
          /\ m.UpdatedAt > m.CreatedAt
    /\ \E o \in members : o.ID # call.id /\ o.UpdatedAt = o.CreatedAt

\* The month of the handler step that p takes.
StepMonth(p) == IF pc[p] = "idle" THEN monthYear'[p] ELSE monthYear[p]

\* C26: a step of the handler of an event with target T, entered in month
\* P, leaves every record of another identity or another month as it was
\* and creates no record other than that of (T, P).
C26_OnlyTargetRecordTouched ==
    [][\A p \in Procs :
          Stepped(p)
          => /\ \A m \in members :
                   (m.SlackUID # StepEvent(p).ItemUser \/ m.Date # StepMonth(p))
                   => m \in members'
             /\ \A n \in members' :
                   (n.SlackUID # StepEvent(p).ItemUser \/ n.Date # StepMonth(p))
                   => n \in members]_vars

\* C27: HandleMonthlyUpdate hands a message to PostMessage only when the
\* form's date value is the text of a month and that month has rows: for a
\* missing or malformed date, and for a month without rows, it returns an
\* error and builds no message; a message it builds names members of the
\* month asked for.
C27_ReportOnlyAfterParseAndLeaderboard ==
    call.op = "HandleMonthlyUpdate"
    => /\ (\/ call.raw = ""
           \/ call.raw \in Malformed
           \/ \E my \in DOMAIN MonthText :
                 /\ call.raw = String(my)
                 /\ \A m \in members : m.Date # my)
          => (call.err # NoErr /\ call.msg = NoMsg)
       /\ call.msg # NoMsg
          => \E my \in DOMAIN MonthText, l \in members, d \in members :
                /\ call.raw = String(my)
                /\ l.Date = my
                /\ d.Date = my
                /\ call.msg = <<l.SlackUID, l.ReceivedLikes,
                                d.SlackUID, d.ReceivedDislikes>>

\* C27 witness: a request with a malformed date has ended with an error
\* and without a message, while the first month has a row with a like.
C27_Witness ==
    /\ call.op = "HandleMonthlyUpdate"
    /\ call.raw \in Malformed
    /\ call.err = ErrParse
    /\ call.msg = NoMsg
    /\ \E m \in members : m.Date = 1 /\ m.ReceivedLikes > 0

====
